---- MODULE Spec2Model ----
(***************************************************************************)
(* A model of the FITS utility functions of src/functions_fits.py and      *)
(* src/functions_misc.py.                                                  *)
(*                                                                         *)
(* The library has no state of its own: every function is called by a      *)
(* driver script with arguments, reads FITS files, returns a value or      *)
(* raises, and some functions write files or overwrite the caller's array. *)
(* The state of the model is therefore the state a call can see or change: *)
(* the files on disk, the caller's arrays, the arguments of the call, the  *)
(* position of the call and its result.  A behaviour is one call: Init     *)
(* draws the function and its inputs, the actions run it.                  *)
(*                                                                         *)
(* Floating-point numbers are modelled as exact rationals together with    *)
(* NaN and the two infinities; rounding is not modelled.  Python indices   *)
(* start at 0 and TLA+ sequences at 1: element i of a Python array is      *)
(* element i+1 of the sequence that models it.                             *)
(***************************************************************************)
EXTENDS Integers, Sequences, FiniteSets, TLC

VARIABLES
  fn,     \* the function the driver calls
  args,   \* its arguments, as passed
  pc,     \* "call": not yet run; "loop": inside fslice3DFITS's loop; "done"
  disk,   \* the files: path -> [header, data]
  mem,    \* the caller's array objects, by argument name (arrays are passed by reference)
  frame,  \* the local variables of a call that takes several steps
  ret     \* the outcome of the call: [exc |-> "none", val |-> ...] or [exc |-> <error>]

vars == <<fn, args, pc, disk, mem, frame, ret>>

----------------------------------------------------------------------------
(* Bounds of the model                                                     *)

\* The largest number of planes (NAXIS3) of a cube.
MaxPlanes == 3

\* The largest number of elements of an array argument.
MaxLen == 3

----------------------------------------------------------------------------
(* Floating-point values: numpy's float64 as exact rationals plus NaN, inf *)

RECURSIVE GCD(_, _)
GCD(a, b) == IF b = 0 THEN a ELSE GCD(b, a % b)

Abs(a) == IF a < 0 THEN -a ELSE a

\* The number n/d (d # 0), in lowest terms with a positive denominator.
Rat(n, d) ==
  LET s == IF d < 0 THEN -1 ELSE 1
      g == GCD(Abs(n), Abs(d))
  IN  [k |-> "num", n |-> (s * n) \div g, d |-> (s * d) \div g]

F(v) == Rat(v, 1)

NaN == [k |-> "nan"]

\* sgn = 1 for +inf, -1 for -inf
Inf(sgn) == [k |-> "inf", n |-> sgn]

Str(s) == [k |-> "str", s |-> s]

Sign(a) == IF a.n > 0 THEN 1 ELSE IF a.n < 0 THEN -1 ELSE 0

isnan(a) == a.k = "nan"

fneg(a) ==
  CASE a.k = "nan" -> NaN
    [] a.k = "inf" -> Inf(-a.n)
    [] OTHER       -> Rat(-a.n, a.d)

fadd(a, b) ==
  CASE a.k = "nan" \/ b.k = "nan"   -> NaN
    [] a.k = "inf" /\ b.k = "inf"   -> IF a.n = b.n THEN a ELSE NaN
    [] a.k = "inf"                  -> a
    [] b.k = "inf"                  -> b
    [] OTHER                        -> Rat(a.n * b.d + b.n * a.d, a.d * b.d)

fsub(a, b) == fadd(a, fneg(b))

fmul(a, b) ==
  CASE a.k = "nan" \/ b.k = "nan"   -> NaN
    [] a.k = "inf" \/ b.k = "inf"   ->
         IF Sign(a) * Sign(b) = 0 THEN NaN ELSE Inf(Sign(a) * Sign(b))
    [] OTHER                        -> Rat(a.n * b.n, a.d * b.d)

\* IEEE division as numpy does it: x/0 is +-inf, 0/0 is NaN (a warning, no error).
fdiv(a, b) ==
  CASE a.k = "nan" \/ b.k = "nan"   -> NaN
    [] a.k = "inf" /\ b.k = "inf"   -> NaN
    [] a.k = "inf"                  -> Inf(a.n * (IF b.n < 0 THEN -1 ELSE 1))
    [] b.k = "inf"                  -> F(0)
    [] b.n = 0                      -> IF a.n = 0 THEN NaN ELSE Inf(Sign(a))
    [] OTHER                        -> Rat(a.n * b.d, a.d * b.n)

\* Comparisons: every ordered comparison with NaN is False, NaN != x is True.
flt(a, b) ==
  CASE a.k = "nan" \/ b.k = "nan"   -> FALSE
    [] a.k = "inf" /\ b.k = "inf"   -> a.n < b.n
    [] a.k = "inf"                  -> a.n < 0
    [] b.k = "inf"                  -> b.n > 0
    [] OTHER                        -> a.n * b.d < b.n * a.d

feq(a, b) == a.k # "nan" /\ b.k # "nan" /\ a = b

fne(a, b) == ~feq(a, b)

fge(a, b) == a.k # "nan" /\ b.k # "nan" /\ ~flt(a, b)

fabs(a) ==
  CASE a.k = "nan" -> NaN
    [] a.k = "inf" -> Inf(1)
    [] OTHER       -> Rat(Abs(a.n), a.d)

----------------------------------------------------------------------------
(* FITS headers: an ordered list of cards <<keyword, value>>               *)

HasKey(header, key) == \E c \in DOMAIN header : header[c][1] = key

\* header[key]: the value of the first card with that keyword.
HGet(header, key) ==
  LET c == CHOOSE c \in DOMAIN header :
             /\ header[c][1] = key
             /\ \A b \in 1..(c - 1) : header[b][1] # key
  IN  header[c][2]

\* header.keys(): the list of the keywords, in order.
HKeys(header) == [c \in DOMAIN header |-> header[c][1]]

\* header[key] = value: the card's value is replaced, or a card is appended.
HSet(header, key, value) ==
  IF HasKey(header, key)
    THEN [c \in DOMAIN header |->
            IF header[c][1] = key THEN <<key, value>> ELSE header[c]]
    ELSE Append(header, <<key, value>>)

\* del header[key]: every card with that keyword goes, the others keep their order.
HDel(header, key) == SelectSeq(header, LAMBDA card : card[1] # key)

\* The error a missing keyword raises.
KeyError(key) == [exc |-> "KeyError", key |-> key]

Return(val) == [exc |-> "none", val |-> val]

----------------------------------------------------------------------------
(* ffreqaxis                                                               *)

\* np.arange(n): 0, 1, ..., n-1
arange(n) == [i \in 1..(IF n > 0 THEN n ELSE 0) |-> F(i - 1)]

\* A variant that numbers the planes from 0: np.arange(NAXIS3).
freqpixels_shifted(NAXIS3) == [i \in DOMAIN arange(NAXIS3) |-> arange(NAXIS3)[i]]

\* The pixel numbers of the planes: np.arange(NAXIS3) + 1.
freqpixels(NAXIS3) == [i \in DOMAIN arange(NAXIS3) |-> fadd(arange(NAXIS3)[i], F(1))]

\* A variant that reads the keywords with defaults (header.get) and so
\* never fails on a missing one.
ffreqaxis_defaults(files, file) ==
  LET header == files[file].header
      get(key, default) == IF HasKey(header, key) THEN HGet(header, key) ELSE default
      CRVAL3 == get("CRVAL3", F(0))
      CRPIX3 == get("CRPIX3", F(1))
      CDELT3 == get("CDELT3", F(1))
      NAXIS3 == get("NAXIS3", F(1)).n
      pix    == freqpixels(NAXIS3)
  IN  Return([i \in DOMAIN pix |->
                fadd(CRVAL3, fmul(fsub(pix[i], CRPIX3), CDELT3))])

\* header[key] raises KeyError at the first keyword the header lacks.
ffreqaxis(files, file) ==
  LET header == files[file].header IN
  IF ~HasKey(header, "CRVAL3") THEN KeyError("CRVAL3")
  ELSE IF ~HasKey(header, "CRPIX3") THEN KeyError("CRPIX3")
  ELSE IF ~HasKey(header, "CDELT3") THEN KeyError("CDELT3")
  ELSE IF ~HasKey(header, "NAXIS3") THEN KeyError("NAXIS3")
  ELSE LET CRVAL3 == HGet(header, "CRVAL3")
           CRPIX3 == HGet(header, "CRPIX3")
           CDELT3 == HGet(header, "CDELT3")
           NAXIS3 == HGet(header, "NAXIS3").n
           pix    == freqpixels(NAXIS3)
       IN  Return([i \in DOMAIN pix |->
                     fadd(CRVAL3, fmul(fsub(pix[i], CRPIX3), CDELT3))])

----------------------------------------------------------------------------
(* fheader_3Dto2D                                                          *)

\* A variant of the list that leaves CROTA3 out.
keys_3D_noCROTA == <<"NAXIS3", "CDELT3", "CRPIX3", "CRVAL3", "CTYPE3">>

\* keys_3D = ["NAXIS3","CDELT3","CROTA3","CRPIX3","CRVAL3","CTYPE3"]
keys_3D == <<"NAXIS3", "CDELT3", "CROTA3", "CRPIX3", "CRVAL3", "CTYPE3">>

InList(key, list) == \E c \in DOMAIN list : list[c] = key

\* for key in keys_3D: if key in header_keys: del header[key]
\* (j: the position in keys_3D the loop has reached)
RECURSIVE DelKeys(_, _, _)
DelKeys(header, header_keys, j) ==
  IF j > Len(keys_3D) THEN header
  ELSE DelKeys(IF InList(keys_3D[j], header_keys) THEN HDel(header, keys_3D[j])
                                                  ELSE header,
               header_keys, j + 1)

\* What the function does to the header it read: header.keys() is taken (a
\* list, under the Python 2 this module is written in) before NAXIS is set.
header_3Dto2D(header) ==
  LET header_keys == HKeys(header)
  IN  DelKeys(HSet(header, "NAXIS", F(2)), header_keys, 1)

\* fits.writeto(path, data, header, overwrite=True): the file is replaced.
writeto(files, path, data, header) ==
  [p \in DOMAIN files \cup {path} |->
     IF p = path THEN [header |-> header, data |-> data] ELSE files[p]]

\* fits.getdata(filedir_in, header=True) gives the function its own copy of
\* the file's header; the input file is not changed.
fheader_3Dto2D(files, filedir_in, filedir_out, write) ==
  LET data   == files[filedir_in].data
      header == header_3Dto2D(files[filedir_in].header)
  IN  [files |-> IF write THEN writeto(files, filedir_out, data, header) ELSE files,
       ret   |-> Return(header)]

----------------------------------------------------------------------------
(* Arrays.  A numpy array is modelled by the sequence of its elements: the  *)
(* functions below work element by element, whatever the shape, and the    *)
(* length of the sequence stands for the shape.                            *)

ones(shape) == [p \in shape |-> F(1)]

\* a op b with numpy's broadcasting of a scalar b over the array a.
Broadcast(b, shape) == IF b.k = "array" THEN b.v ELSE [p \in shape |-> b.v]

----------------------------------------------------------------------------
(* fmaptheta_halfpolar                                                     *)

\* A variant without the (angles != full) guard.
in_upper_half_unguarded(a, half, full) == fge(a, half)

\* (angles >= half) & (angles != full), the angles the first statement shifts
in_upper_half(a, half, full) == fge(a, half) /\ fne(a, full)

\* Both statements work in place on the caller's array, one after the other.
fmaptheta_fold(angles, half, full) ==
  LET step1 == [p \in DOMAIN angles |->
                  IF in_upper_half(angles[p], half, full)
                    THEN fsub(angles[p], half) ELSE angles[p]]
  IN  [p \in DOMAIN angles |->
         IF feq(step1[p], full) THEN fsub(step1[p], full) ELSE step1[p]]

fmaptheta_halfpolar(angles, deg) ==
  IF deg = FALSE THEN fmaptheta_fold(angles, F(1), F(2))
  ELSE IF deg = TRUE THEN fmaptheta_fold(angles, F(180), F(360))
  ELSE angles

----------------------------------------------------------------------------
(* fmask_snr                                                               *)

\* A variant that also masks equality: data_snr <= snr.
low_snr_inclusive(data_snr, snr) == ~flt(snr, data_snr) /\ ~isnan(data_snr) /\ ~isnan(snr)

\* The comparison that finds the pixels to mask: data_snr < snr.
low_snr(data_snr, snr) == flt(data_snr, snr)

fmask_snr(data, noise, snr) ==
  LET shape      == DOMAIN data
      noise_b    == Broadcast(noise, shape)
      data_snr   == [p \in shape |-> fdiv(data[p], noise_b[p])]
      mask       == [p \in shape |->
                       IF low_snr(data_snr[p], snr) THEN NaN ELSE ones(shape)[p]]
      data_clean == [p \in shape |-> fmul(data[p], mask[p])]
  IN  <<mask, data_clean>>

----------------------------------------------------------------------------
(* fhighlatmask                                                            *)

\* A variant that also masks equality: np.abs(bgrid) <= blim.
low_latitude_inclusive(b, blim) == ~flt(blim, fabs(b)) /\ ~isnan(b) /\ ~isnan(blim)

\* The comparison that finds the pixels to mask: np.abs(bgrid) < blim.
low_latitude(b, blim) == flt(fabs(b), blim)

fhighlatmask(lb_coords, blim) ==
  LET bgrid == lb_coords.b
  IN  [p \in DOMAIN bgrid |->
         IF low_latitude(bgrid[p], blim) THEN NaN ELSE ones(DOMAIN bgrid)[p]]

----------------------------------------------------------------------------
(* fcubeavg                                                                *)
(* A cube is the sequence of its planes (axis 0), a plane the sequence of  *)
(* its pixels.                                                             *)

\* The samples of pixel p along axis 0.
Samples(cube, p) == [z \in DOMAIN cube |-> cube[z][p]]

\* np.nansum over the samples of a pixel: NaN counts as 0.
RECURSIVE nansum(_, _)
nansum(col, z) ==
  IF z > Len(col) THEN F(0)
  ELSE fadd(IF isnan(col[z]) THEN F(0) ELSE col[z], nansum(col, z + 1))

\* A variant that counts the NaN samples too (np.mean's divisor).
valid_count_all(col) == Len(col)

\* The number of samples np.nanmean divides by: the non-NaN ones.
valid_count(col) == Cardinality({z \in DOMAIN col : ~isnan(col[z])})

\* np.nanmean(cube, axis=0): 0/0 is NaN where every sample is NaN.
nanmean_axis0(cube) ==
  [p \in DOMAIN cube[1] |->
     fdiv(nansum(Samples(cube, p), 1), F(valid_count(Samples(cube, p))))]

fcubeavg(files, filedir_in, filedir_out, write) ==
  LET data_cube  == files[filedir_in].data
      data_avg   == nanmean_axis0(data_cube)
      header_avg == fheader_3Dto2D(files, filedir_in, ".", FALSE).ret.val
  IN  [files |-> IF write = TRUE THEN writeto(files, filedir_out, data_avg, header_avg)
                                 ELSE files,
       ret   |-> Return(<<data_avg, header_avg>>)]

----------------------------------------------------------------------------
(* fslice3DFITS                                                            *)

\* The digits of the fraction r/d (r < d), at most k of them.
RECURSIVE FracDigits(_, _, _)
FracDigits(r, d, k) ==
  IF r = 0 \/ k = 0 THEN ""
  ELSE ToString((r * 10) \div d) \o FracDigits((r * 10) % d, d, k - 1)

\* str(x) of a float: the decimal digits of the value ("0.005", "5.0",
\* "-0.0015").  Python 2 keeps 12 significant digits and switches to an
\* exponent below 1e-4 and from 1e12 on; the values of the model are 0 or
\* lie in between and have fewer digits.
str_float(x) ==
  CASE x.k = "nan" -> "nan"
    [] x.k = "inf" -> IF x.n > 0 THEN "inf" ELSE "-inf"
    [] OTHER ->
         LET a    == Abs(x.n)
             frac == FracDigits(a % x.d, x.d, 12)
         IN  (IF x.n < 0 THEN "-" ELSE "") \o ToString(a \div x.d) \o "."
               \o (IF frac = "" THEN "0" ELSE frac)

\* os.path.basename, for the paths of the model.
basename(path) == IF path = "cubes/in.fits" THEN "in.fits" ELSE path

\* The name of the file of plane i (from 0).
slice_fdir(filedir_in, dir_out, units, third_axis, i) ==
  LET third_axis_i == fmul(third_axis[i + 1], Rat(1, 1000))
      fname == basename(filedir_in) \o "_" \o str_float(third_axis_i) \o "_"
                 \o units \o ".fits"
  IN  dir_out \o fname

----------------------------------------------------------------------------
(* fconvolve                                                               *)
(* The standard deviations carry the factor 1/(2 sqrt(2 ln 2)), which is   *)
(* the same for both: squares are kept in units of 1/(8 ln 2), and a       *)
(* square root that exists is kept as the root of its argument.            *)

\* np.sqrt of a float: NaN (and a warning, no error) below zero.
np_sqrt(x) ==
  IF isnan(x) \/ x.n < 0 THEN NaN
  ELSE IF x.n = 0 THEN F(0)
  ELSE [k |-> "sqrt", n |-> 1, of |-> x]

\* kernel_arcmin/pixelsize: NaN stays NaN, x/0 is +-inf or NaN.
kernel_over_pixel(kernel_arcmin, pixelsize) ==
  CASE isnan(kernel_arcmin)     -> NaN
    [] kernel_arcmin.k = "sqrt" ->
         IF pixelsize.n = 0 THEN Inf(1)
         ELSE [k |-> "sqrt", n |-> Sign(pixelsize), of |-> kernel_arcmin.of,
               per |-> fabs(pixelsize)]
    [] OTHER                    -> fdiv(kernel_arcmin, pixelsize)

\* signal.gaussian(M, std) normalised by its sum: exp(-n^2/(2 std^2)) is NaN
\* for a NaN std, and for std = 0 the window is 0 (or NaN at n = 0) and its
\* sum 0 or NaN, so that every element of kernel_norm is NaN.
kernel_is_nan(kernelsize) ==
  isnan(kernelsize) \/ (kernelsize.k = "num" /\ kernelsize.n = 0)

\* An element of the convolution of data with a kernel that has numbers in it.
Smoothed(p) == [k |-> "smoothed", p |-> p]

fconvolve(oldres, newres, data, header, method) ==
  LET sigma2        == fsub(fmul(newres, newres), fmul(oldres, oldres))
      kernel_arcmin == np_sqrt(sigma2)
  IN  IF ~HasKey(header, "CDELT2")
        THEN [data |-> data, ret |-> KeyError("CDELT2")]
      ELSE
        LET pixelsize  == fmul(HGet(header, "CDELT2"), F(60))
            kernelsize == kernel_over_pixel(kernel_arcmin, pixelsize)
            result     == [p \in DOMAIN data |->
                             IF kernel_is_nan(kernelsize) THEN NaN ELSE Smoothed(p)]
        IN  IF method = "scipy"
              THEN [data |-> [p \in DOMAIN data |->
                                IF isnan(data[p]) THEN F(0) ELSE data[p]],
                    ret  |-> Return(result)]
            ELSE IF method = "astropy"
              THEN [data |-> data, ret |-> Return(result)]
            ELSE [data |-> data, ret |-> [exc |-> "UnboundLocalError"]]

----------------------------------------------------------------------------
(* freproject_2D                                                           *)

\* The keywords of the minimal header, in the order of Header.fromkeys.
clean_keys ==
  <<"NAXIS", "NAXIS1", "NAXIS2", "CTYPE1", "CRPIX1", "CRVAL1", "CDELT1",
    "CTYPE2", "CRPIX2", "CRVAL2", "CDELT2">>

\* The keywords lines 197-206 (and 209-218) copy, in that order.
copied_keys ==
  <<"NAXIS1", "NAXIS2", "CTYPE1", "CRPIX1", "CRVAL1", "CDELT1",
    "CTYPE2", "CRPIX2", "CRVAL2", "CDELT2">>

\* fits.Header.fromkeys(keys): a card without a value for each keyword.
Header_fromkeys(keys) == [c \in DOMAIN keys |-> <<keys[c], Str("None")>>]

\* Lines 196-206: NAXIS = 2, then every keyword copied from the image's header;
\* the first keyword the image's header lacks raises.
RECURSIVE CopyKeys(_, _, _)
CopyKeys(header_clean, image_header, j) ==
  IF j > Len(copied_keys) THEN Return(header_clean)
  ELSE IF ~HasKey(image_header, copied_keys[j]) THEN KeyError(copied_keys[j])
  ELSE CopyKeys(HSet(header_clean, copied_keys[j], HGet(image_header, copied_keys[j])),
                image_header, j + 1)

header_clean(image_header) ==
  CopyKeys(HSet(Header_fromkeys(clean_keys), "NAXIS", F(2)), image_header, 1)

\* reproject_interp((data, header_in), header_out, order=order) belongs to the
\* reproject library: its two results are kept as the call that gives them.
reproject_interp(data, header_in, header_out, order) ==
  << [k |-> "reprojected", data |-> data, header_in |-> header_in,
      header_out |-> header_out, order |-> order],
     [k |-> "footprint", header_in |-> header_in, header_out |-> header_out] >>

freproject_2D(files, image1_dir, image2_dir, clean, order) ==
  LET image1_data   == files[image1_dir].data
      image1_header == files[image1_dir].header
      image2_data   == files[image2_dir].data
      image2_header == files[image2_dir].header
      image1_header_clean == header_clean(image1_header)
      image2_header_clean == header_clean(image2_header)
      finish(image1_header_reproj, image2_header_reproj) ==
        LET r == reproject_interp(image1_data, image1_header_reproj,
                                  image2_header_reproj, order)
        IN  Return(<<image1_data, image1_header, r[1], image1_header_reproj,
                     image2_data, image2_header_reproj, r[2]>>)
  IN  IF clean = TRUE
        THEN IF image1_header_clean.exc # "none" THEN image1_header_clean
             ELSE IF image2_header_clean.exc # "none" THEN image2_header_clean
             ELSE finish(image1_header_clean.val, image2_header_clean.val)
        ELSE finish(image2_header, image2_header)

----------------------------------------------------------------------------
(* freproj2D_EQ_GAL and freproj3D_EQ_GAL                                   *)

\* The names the module binds at its top level (imports and functions): what
\* a name that is no local variable of a function is looked up in.
module_globals ==
  {"os", "np", "wcs", "fits", "u", "montage", "reproject_interp", "SkyCoord",
   "ffreqaxis", "fcubeavg", "fcoordgrid_EQ", "fcoordgrid_GAL", "fcoordgrid_EQtoGAL",
   "fcoordgrid_GALtoEQ", "freproject_2D", "freproj2D_EQ_GAL", "freproj3D_EQ_GAL",
   "freproj_fromHEALPix", "fhighlatmask", "fmask2DEQhighlat", "fheader_3Dto2D",
   "fslice3DFITS"}

\* The names freproj2D_EQ_GAL assigns anywhere in its body: its local
\* variables.  (Lines 256-258, which would assign the canvas size, are
\* comments.)
locals_2D ==
  {"data_EQ", "header_EQ", "w_EQ", "header_EQ_NAXIS1", "header_EQ_NAXIS2",
   "header_GAL_CTYPE1", "header_GAL_CTYPE2", "header_GAL_CUNIT1", "header_GAL_CUNIT2",
   "header_GAL_CROTA1", "header_GAL_CROTA2", "header_GAL_CRPIX1", "header_GAL_CRPIX2",
   "crpix1_GAL", "crpix2_GAL", "crpix1_EQ", "crpix2_EQ", "crpix1_crpix2_radec",
   "crpix1_ra", "crpix2_dec", "coords_EQ", "header_GAL_CRVAL1", "header_GAL_CRVAL2",
   "header_GAL_CDELT1", "header_GAL_CDELT2", "data_GAL", "header_GAL", "header_file",
   "mheader_file"}

locals_3D ==
  {"data_EQ_3D", "header_EQ_3D", "header_EQ_3D_NAXIS1", "header_EQ_3D_NAXIS2",
   "header_EQ_3D_NAXIS3", "header_EQ_3D_CTYPE1", "header_EQ_3D_CTYPE2",
   "header_EQ_3D_CTYPE3", "header_EQ_3D_CRPIX1", "header_EQ_3D_CRPIX2",
   "header_EQ_3D_CRPIX3", "header_EQ_3D_CRVAL1", "header_EQ_3D_CRVAL2",
   "header_EQ_3D_CRVAL3", "header_EQ_3D_CDELT1", "header_EQ_3D_CDELT2",
   "header_EQ_3D_CDELT3", "header_GAL_3D_CTYPE1", "header_GAL_3D_CTYPE2",
   "header_GAL_3D_CUNIT1", "header_GAL_3D_CUNIT2", "header_GAL_3D_CROTA1",
   "header_GAL_3D_CROTA2", "header_GAL_3D_CRPIX1", "header_GAL_3D_CRPIX2",
   "crpix1_GAL_3D", "crpix2_GAL_3D", "w_EQ_3D", "crpix1_EQ_2D", "crpix2_EQ_2D",
   "crpix1_crpix2_radec_2D", "crpix1_ra_2D", "crpix2_dec_2D", "coords",
   "header_GAL_3D_CRVAL1", "header_GAL_3D_CRVAL2", "header_GAL_3D_CDELT1",
   "header_GAL_3D_CDELT2", "data_GAL_3D", "header_GAL_3D", "header_file",
   "mheader_file"}

NameError(name) == [exc |-> "NameError", name |-> name]

\* The first keyword of keys that header lacks, or "" if it has them all.
RECURSIVE FirstMissing(_, _, _)
FirstMissing(header, keys, j) ==
  IF j > Len(keys) THEN ""
  ELSE IF ~HasKey(header, keys[j]) THEN keys[j]
  ELSE FirstMissing(header, keys, j + 1)

\* SetAll(header, <<k1, v1>>, <<k2, v2>>, ...): the assignments in order.
RECURSIVE SetAll(_, _, _)
SetAll(header, cards, j) ==
  IF j > Len(cards) THEN header
  ELSE SetAll(HSet(header, cards[j][1], cards[j][2]), cards, j + 1)

\* fits.PrimaryHDU(data=np.zeros(shape)).header
PrimaryHeader(shape) ==
  << <<"SIMPLE", Str("T")>>, <<"BITPIX", F(-64)>>, <<"NAXIS", F(Len(shape))>> >>
    \o [c \in DOMAIN shape |-> <<"NAXIS" \o ToString(c), F(shape[Len(shape) + 1 - c])>>]
    \o << <<"EXTEND", Str("T")>> >>

\* The Galactic coordinates of the centre of the input image: the work of
\* astropy's WCS and SkyCoord, kept as the call that gives them.
GalacticCentre(header, coord) == [k |-> "galactic", of |-> header, coord |-> coord]

\* Lines 299-304 (and 366-371): the header file is written, montage turns it
\* into the text header, the header file is removed and montage reprojects
\* into filedir_out.
montage_protocol(files, filedir_in, filedir_out, data_GAL, header_GAL, header_file, mheader_file) ==
  LET written  == writeto(files, header_file, data_GAL, header_GAL)
      mheader  == [p \in DOMAIN written \cup {mheader_file} |->
                     IF p = mheader_file
                       THEN [header |-> written[header_file].header, data |-> <<>>]
                       ELSE written[p]]
      removed  == [p \in DOMAIN mheader \ {header_file} |-> mheader[p]]
  IN  [p \in DOMAIN removed \cup {filedir_out} |->
         IF p = filedir_out
           THEN [header |-> removed[mheader_file].header,
                 data   |-> [k |-> "reprojected", of |-> filedir_in]]
           ELSE removed[p]]

\* canvas: the value of header_GAL_NAXIS1 and header_GAL_NAXIS2 where the
\* names are bound, <<>> where they are not.
freproj2D_EQ_GAL(files, filedir_in, filedir_out, bound, canvas) ==
  LET header_EQ == files[filedir_in].header
      missing   == FirstMissing(header_EQ, <<"NAXIS1", "NAXIS2">>, 1)
  IN  IF missing # "" THEN [files |-> files, ret |-> KeyError(missing)]
      ELSE IF "header_GAL_NAXIS1" \notin bound
        THEN [files |-> files, ret |-> NameError("header_GAL_NAXIS1")]
      ELSE IF "header_GAL_NAXIS2" \notin bound
        THEN [files |-> files, ret |-> NameError("header_GAL_NAXIS2")]
      ELSE IF FirstMissing(header_EQ, <<"CDELT1", "CDELT2">>, 1) # ""
        THEN [files |-> files,
              ret |-> KeyError(FirstMissing(header_EQ, <<"CDELT1", "CDELT2">>, 1))]
      ELSE
        LET header_GAL_NAXIS1 == canvas[1]
            header_GAL_NAXIS2 == canvas[2]
            header_GAL ==
              SetAll(PrimaryHeader(<<header_GAL_NAXIS2, header_GAL_NAXIS1>>),
                << <<"NAXIS", F(2)>>,
                   <<"NAXIS1", F(header_GAL_NAXIS1)>>,
                   <<"NAXIS2", F(header_GAL_NAXIS2)>>,
                   <<"CTYPE1", Str("GLON-TAN")>>,
                   <<"CRPIX1", Rat(header_GAL_NAXIS1, 2)>>,
                   <<"CRVAL1", GalacticCentre(header_EQ, "l")>>,
                   <<"CDELT1", HGet(header_EQ, "CDELT1")>>,
                   <<"CROTA1", F(0)>>,
                   <<"CTYPE2", Str("GLAT-TAN")>>,
                   <<"CRPIX2", Rat(header_GAL_NAXIS2, 2)>>,
                   <<"CRVAL2", GalacticCentre(header_EQ, "b")>>,
                   <<"CDELT2", HGet(header_EQ, "CDELT2")>>,
                   <<"CROTA2", F(0)>>,
                   <<"EQUINOX", F(2000)>>,
                   <<"CUNIT1", Str("deg")>>,
                   <<"CUNIT2", Str("deg")>> >>, 1)
        IN  [files |-> montage_protocol(files, filedir_in, filedir_out,
                         [k |-> "zeros", shape |-> <<header_GAL_NAXIS2, header_GAL_NAXIS1>>],
                         header_GAL,
                         "/Users/campbell/Documents/PhD/data/GALFACTS/N1/GAL/header_GAL.fits",
                         "/Users/campbell/Documents/PhD/data/GALFACTS/N1/GAL/mheader_GAL.txt"),
             ret   |-> Return("None")]

\* The keywords lines 322-326 read, in the order they are read.
keys_EQ_3D ==
  <<"NAXIS1", "NAXIS2", "NAXIS3", "CTYPE1", "CTYPE2", "CTYPE3", "CRPIX1", "CRPIX2",
    "CRPIX3", "CRVAL1", "CRVAL2", "CRVAL3", "CDELT1", "CDELT2", "CDELT3">>

freproj3D_EQ_GAL(files, filedir_in, filedir_out, header_file_arg, bound, canvas) ==
  LET header_EQ_3D == files[filedir_in].header
      data_EQ_3D   == files[filedir_in].data
      missing      == FirstMissing(header_EQ_3D, keys_EQ_3D, 1)
  IN  IF missing # "" THEN [files |-> files, ret |-> KeyError(missing)]
      ELSE IF "header_GAL_3D_NAXIS1" \notin bound
        THEN [files |-> files, ret |-> NameError("header_GAL_3D_NAXIS1")]
      ELSE IF "header_GAL_3D_NAXIS2" \notin bound
        THEN [files |-> files, ret |-> NameError("header_GAL_3D_NAXIS2")]
      ELSE
        LET header_GAL_3D_NAXIS1 == canvas[1]
            header_GAL_3D_NAXIS2 == canvas[2]
            shape == <<HGet(header_EQ_3D, "NAXIS3").n, HGet(header_EQ_3D, "NAXIS2").n,
                       HGet(header_EQ_3D, "NAXIS1").n>>
            header_GAL_3D ==
              SetAll(PrimaryHeader(shape),
                << <<"CTYPE1", Str("GLON-TAN")>>,
                   <<"CTYPE2", Str("GLAT-TAN")>>,
                   <<"CTYPE3", HGet(header_EQ_3D, "CTYPE3")>>,
                   <<"NAXIS1", F(header_GAL_3D_NAXIS1)>>,
                   <<"NAXIS2", F(header_GAL_3D_NAXIS2)>>,
                   <<"NAXIS3", HGet(header_EQ_3D, "NAXIS3")>>,
                   <<"CRPIX1", Rat(header_GAL_3D_NAXIS1, 2)>>,
                   <<"CRPIX2", Rat(header_GAL_3D_NAXIS2, 2)>>,
                   <<"CRPIX3", HGet(header_EQ_3D, "CRPIX3")>>,
                   <<"CRVAL1", GalacticCentre(header_EQ_3D, "l")>>,
                   <<"CRVAL2", GalacticCentre(header_EQ_3D, "b")>>,
                   <<"CRVAL3", HGet(header_EQ_3D, "CRVAL3")>>,
                   <<"CDELT1", HGet(header_EQ_3D, "CDELT1")>>,
                   <<"CDELT2", HGet(header_EQ_3D, "CDELT2")>>,
                   <<"CDELT3", HGet(header_EQ_3D, "CDELT3")>>,
                   <<"CUNIT1", Str("deg")>>,
                   <<"CUNIT2", Str("deg")>>,
                   <<"CROTA1", F(0)>>,
                   <<"CROTA2", F(0)>>,
                   <<"CROTA3", F(0)>> >>, 1)
        IN  [files |-> montage_protocol(files, filedir_in, filedir_out,
                         [k |-> "zeros", shape |-> shape],
                         header_GAL_3D,
                         "/Users/campbell/Documents/PhD/data/GALFA-HI/N1/v_-10_+10_kms/GAL/header_GAL.fits",
                         "/Users/campbell/Documents/PhD/data/GALFA-HI/N1/v_-10_+10_kms/GAL/mheader_GAL.txt"),
             ret   |-> Return("None")]

----------------------------------------------------------------------------
(* fmask_signal                                                            *)

\* A variant that also masks equality: data <= signal.
low_signal_inclusive(data, signal) == ~flt(signal, data) /\ ~isnan(data) /\ ~isnan(signal)

\* The comparison that finds the pixels to mask: data < signal.
low_signal(data, signal) == flt(data, signal)

fmask_signal(data, signal) ==
  LET shape      == DOMAIN data
      mask       == [p \in shape |->
                       IF low_signal(data[p], signal) THEN NaN ELSE ones(shape)[p]]
      data_clean == [p \in shape |-> fmul(data[p], mask[p])]
  IN  <<mask, data_clean>>

----------------------------------------------------------------------------
(* fgradient.  The image is two-dimensional: a sequence of rows.           *)

ValueError == [exc |-> "ValueError"]

\* np.gradient along one axis of unit spacing: central differences inside,
\* one-sided first differences at both ends.
gradient_1d(f, i) ==
  IF i = 1 THEN fsub(f[2], f[1])
  ELSE IF i = Len(f) THEN fsub(f[i], f[i - 1])
  ELSE fdiv(fsub(f[i + 1], f[i - 1]), F(2))

fgradient(image) ==
  LET rows == Len(image)
      cols == Len(image[1])
  IN  IF rows < 2 \/ cols < 2 THEN ValueError
      ELSE
        LET grad_y == [r \in 1..rows |-> [c \in 1..cols |->
                         gradient_1d([k \in 1..rows |-> image[k][c]], r)]]
            grad_x == [r \in 1..rows |-> [c \in 1..cols |->
                         gradient_1d(image[r], c)]]
            grad   == [r \in 1..rows |-> [c \in 1..cols |->
                         np_sqrt(fadd(fmul(grad_x[r][c], grad_x[r][c]),
                                      fmul(grad_y[r][c], grad_y[r][c])))]]
        IN  Return(grad)

----------------------------------------------------------------------------
(* fmaskinterp.  interpolate.griddata is the library's: a pixel of its     *)
(* result is kept as the interpolation at that pixel from the valid ones.  *)

Interpolated(p, valid) == [k |-> "griddata", p |-> p, from |-> valid]

fmaskinterp(image, mask) ==
  LET mask_invalid == [p \in DOMAIN mask |-> isnan(mask[p])]
      valid        == {p \in DOMAIN image : ~mask_invalid[p]}
      image_new    == [p \in valid |-> image[p]]
  IN  [p \in DOMAIN image |-> Interpolated(p, image_new)]

----------------------------------------------------------------------------
(* Inputs                                                                  *)

\* The optional cards of the third axis a header may carry, each absent or
\* present with one of a few values.
Axis3Values ==
  [CRVAL3 |-> {F(0), F(5)},
   CRPIX3 |-> {F(1), F(2), Rat(3, 2)},
   CDELT3 |-> {F(-1), F(0), F(2)},
   NAXIS3 |-> {F(n) : n \in 0..MaxPlanes}]

\* The card of keyword key, or no card when v = "absent".
Card(key, v) == IF v = Str("absent") THEN <<>> ELSE << <<key, v>> >>

Opt(S) == S \cup {Str("absent")}

AxisHeaders ==
  { << <<"NAXIS", F(3)>>, <<"NAXIS1", F(1)>>, <<"NAXIS2", F(1)>> >> \o Card("CRVAL3", v) \o Card("CRPIX3", p)
       \o Card("CDELT3", d) \o Card("NAXIS3", n) :
      v \in Opt(Axis3Values.CRVAL3), p \in Opt(Axis3Values.CRPIX3),
      d \in Opt(Axis3Values.CDELT3), n \in Opt(Axis3Values.NAXIS3) }

Init_ffreqaxis ==
  /\ fn = "ffreqaxis"
  /\ args = [file |-> "in.fits"]
  /\ \E h \in AxisHeaders : disk = [p \in {"in.fits"} |-> [header |-> h, data |-> <<>>]]
  /\ mem = <<>>

\* Every ordering of the elements of S.
RECURSIVE Perms(_)
Perms(S) ==
  IF S = {} THEN {<<>>}
  ELSE UNION {{<<x>> \o p : p \in Perms(S \ {x})} : x \in S}

\* The keywords that describe the third axis of a cube.
Axis3Keywords == {"NAXIS3", "CDELT3", "CROTA3", "CRPIX3", "CRVAL3", "CTYPE3"}

\* The value the input files give each keyword of the third axis.
Axis3Card(key) ==
  CASE key = "NAXIS3" -> <<key, F(2)>>
    [] key = "CDELT3" -> <<key, F(2)>>
    [] key = "CROTA3" -> <<key, F(0)>>
    [] key = "CRPIX3" -> <<key, F(1)>>
    [] key = "CRVAL3" -> <<key, F(5)>>
    [] key = "CTYPE3" -> <<key, Str("VELO")>>

\* Headers with any subset of the axis-3 keywords, in any order, between
\* keywords of the other axes.
ReducibleHeaders ==
  { << <<"NAXIS", F(3)>>, <<"NAXIS1", F(4)>> >>
       \o [c \in DOMAIN p |-> Axis3Card(p[c])]
       \o << <<"BUNIT", Str("K")>> >> :
      p \in UNION {Perms(T) : T \in SUBSET Axis3Keywords} }

\* A cube of two planes of one pixel each.
SmallCube == << << <<F(1)>> >>, << <<F(3)>> >> >>

Init_fheader_3Dto2D ==
  /\ fn = "fheader_3Dto2D"
  /\ \E w \in BOOLEAN :
       args = [filedir_in |-> "in.fits", filedir_out |-> "out.fits", write |-> w]
  /\ \E h \in ReducibleHeaders :
       disk = [p \in {"in.fits"} |-> [header |-> h, data |-> SmallCube]]
  /\ mem = <<>>

\* Every array of at most MaxLen elements of S.
Arrays(S) == UNION {[1..n -> S] : n \in 0..MaxLen}

\* Angles of both units, at and around the boundaries, in and out of range.
AngleValues ==
  {F(0), Rat(1, 2), F(1), Rat(3, 2), F(2), F(90), F(180), F(270), F(360), F(540), NaN}

Init_fmaptheta_halfpolar ==
  /\ fn = "fmaptheta_halfpolar"
  /\ \E a \in Arrays(AngleValues), deg \in BOOLEAN :
       /\ args = [angles |-> a, deg |-> deg]
       /\ mem = [angles |-> a]
  /\ disk = <<>>

DataValues == {NaN, F(1), F(5), F(10)}

NoiseScalars == {F(-1), F(0), F(1), F(2)}

NoiseValues == {F(-1), F(0), F(2)}

SnrValues == {F(3), Rat(5, 2)}

Init_fmask_snr ==
  /\ fn = "fmask_snr"
  /\ \E d \in Arrays(DataValues), snr \in SnrValues :
       /\ \E noise \in {[k |-> "scalar", v |-> x] : x \in NoiseScalars}
                        \cup {[k |-> "array", v |-> x] : x \in [DOMAIN d -> NoiseValues]} :
            /\ args = [data |-> d, noise |-> noise, snr |-> snr]
            /\ mem = [data |-> d, noise |-> noise]
  /\ disk = <<>>

LatitudeValues == {F(-30), F(-10), F(0), F(10), F(45), NaN}

BlimValues == {F(0), F(10), F(20)}

Init_fhighlatmask ==
  /\ fn = "fhighlatmask"
  /\ \E b \in Arrays(LatitudeValues), blim \in BlimValues :
       /\ args = [lb_coords |-> [l |-> [p \in DOMAIN b |-> F(120)], b |-> b], blim |-> blim]
       /\ mem = [lb_coords |-> args.lb_coords]
  /\ disk = <<>>

SampleValues == {NaN, F(1), F(3)}

\* The number of pixels of a plane.
PlaneSizes == {1, 2}

Cubes == UNION {[1..nz -> [1..np -> SampleValues]] : nz \in 1..MaxPlanes, np \in PlaneSizes}

\* The header of a cube file agrees with the shape of its data.
CubeHeader(cube) ==
  << <<"NAXIS", F(3)>>, <<"NAXIS1", F(Len(cube[1]))>>, <<"NAXIS2", F(1)>>,
     <<"NAXIS3", F(Len(cube))>>, <<"CTYPE3", Str("VELO")>>, <<"CRVAL3", F(0)>>,
     <<"CRPIX3", F(1)>>, <<"CDELT3", F(2)>>, <<"BUNIT", Str("K")>> >>

Init_fcubeavg ==
  /\ fn = "fcubeavg"
  /\ \E w \in BOOLEAN :
       args = [filedir_in |-> "in.fits", filedir_out |-> "out.fits", write |-> w]
  /\ \E cube \in Cubes :
       disk = [p \in {"in.fits"} |-> [header |-> CubeHeader(cube), data |-> cube]]
  /\ mem = <<>>

\* The data of a file with header h: NAXIS3 planes of one pixel (all
\* different, or all alike), or a 2D image where the header has no NAXIS3.
FileData(h, alike) ==
  IF HasKey(h, "NAXIS3")
    THEN [z \in 1..HGet(h, "NAXIS3").n |-> <<F(IF alike THEN 10 ELSE 10 + z)>>]
    ELSE <<F(10), F(11)>>

\* The number of planes along axis 0: data.shape[0].
shape0(data) == Len(data)

Init_fslice3DFITS ==
  /\ fn = "fslice3DFITS"
  /\ \E path \in {"in.fits", "cubes/in.fits"} :
       /\ args = [filedir_in |-> path, dir_out |-> "out/", units |-> "kms",
                  verbose |-> TRUE]
       /\ \E h \in AxisHeaders, alike \in BOOLEAN :
            /\ HasKey(h, "NAXIS3") => HGet(h, "NAXIS3").n > 0
            /\ disk = [p \in {path} |-> [header |-> h, data |-> FileData(h, alike)]]
  /\ mem = <<>>

Resolutions == {F(2), F(4)}

ImageValues == {NaN, F(1), F(5)}

PixelHeaders ==
  { << <<"NAXIS", F(2)>> >> \o Card("CDELT2", c) : c \in Opt({Rat(1, 60), Rat(1, 30)}) }

Init_fconvolve ==
  /\ fn = "fconvolve"
  /\ \E oldres \in Resolutions, newres \in Resolutions,
        d \in Arrays(ImageValues) \ {<<>>},
        h \in PixelHeaders, method \in {"scipy", "astropy", "fft"} :
       /\ args = [oldres |-> oldres, newres |-> newres, data |-> d, header |-> h,
                  method |-> method]
       /\ mem = [data |-> d]
  /\ disk = <<>>

\* A 2D image header: its reference value, an optional keyword outside the
\* minimal set, and CDELT2 present or not.
ImageHeader(crval1, bunit, cdelt2) ==
  << <<"NAXIS", F(2)>>, <<"NAXIS1", F(4)>>, <<"NAXIS2", F(4)>>,
     <<"CTYPE1", Str("RA---TAN")>>, <<"CRPIX1", F(2)>>, <<"CRVAL1", crval1>>,
     <<"CDELT1", Rat(-1, 60)>>, <<"CTYPE2", Str("DEC--TAN")>>, <<"CRPIX2", F(2)>>,
     <<"CRVAL2", F(30)>> >>
    \o Card("CDELT2", cdelt2) \o Card("BUNIT", bunit)

ImageHeaders ==
  { ImageHeader(v, b, c) :
      v \in {F(10), F(20)}, b \in Opt({Str("K")}), c \in Opt({Rat(1, 60)}) }

Init_freproject_2D ==
  /\ fn = "freproject_2D"
  /\ \E clean \in BOOLEAN, order \in {"nearest-neighbor", "bilinear"} :
       args = [image1_dir |-> "image1.fits", image2_dir |-> "image2.fits",
               clean |-> clean, order |-> order]
  /\ \E h1 \in ImageHeaders, h2 \in ImageHeaders :
       disk = [p \in {"image1.fits", "image2.fits"} |->
                 IF p = "image1.fits" THEN [header |-> h1, data |-> <<F(1), F(5)>>]
                                      ELSE [header |-> h2, data |-> <<F(3), F(3)>>]]
  /\ mem = <<>>

\* The header of an equatorial cube of nz planes.
EQCubeHeader(nz, cdelt2) ==
  << <<"NAXIS", F(3)>>, <<"NAXIS1", F(4)>>, <<"NAXIS2", F(4)>>, <<"NAXIS3", F(nz)>>,
     <<"CTYPE1", Str("RA---TAN")>>, <<"CRPIX1", F(2)>>, <<"CRVAL1", F(10)>>,
     <<"CDELT1", Rat(-1, 60)>>, <<"CTYPE2", Str("DEC--TAN")>>, <<"CRPIX2", F(2)>>,
     <<"CRVAL2", F(30)>>, <<"CTYPE3", Str("VELO")>>, <<"CRPIX3", F(1)>>,
     <<"CRVAL3", F(0)>>, <<"CDELT3", F(2)>> >>
    \o Card("CDELT2", cdelt2)

Init_freproj2D_EQ_GAL ==
  /\ fn = "freproj2D_EQ_GAL"
  /\ args = [filedir_in |-> "in.fits", filedir_out |-> "out.fits"]
  /\ \E h \in ImageHeaders :
       disk = [p \in {"in.fits"} |-> [header |-> h, data |-> <<F(1), F(5)>>]]
  /\ mem = <<>>

Init_freproj3D_EQ_GAL ==
  /\ fn = "freproj3D_EQ_GAL"
  /\ args = [filedir_in |-> "in.fits", filedir_out |-> "out.fits",
             header_file |-> "header.fits"]
  /\ \E nz \in 1..MaxPlanes, c \in Opt({Rat(1, 60)}) :
       disk = [p \in {"in.fits"} |->
                 [header |-> EQCubeHeader(nz, c),
                  data |-> [z \in 1..nz |-> <<F(z)>>]]]
  /\ mem = <<>>

SignalValues == {F(0), F(5), NaN}

Init_fmask_signal ==
  /\ fn = "fmask_signal"
  /\ \E d \in Arrays(DataValues \cup {F(-2), Inf(1), Inf(-1)}), signal \in SignalValues :
       /\ args = [data |-> d, signal |-> signal]
       /\ mem = [data |-> d]
  /\ disk = <<>>

GradientValues == {NaN, F(1), F(4)}

\* Images of one or two rows of up to MaxLen pixels.
Images == UNION {[1..rows -> [1..cols -> GradientValues]] : rows \in 1..2, cols \in 1..MaxLen}

Init_fgradient ==
  /\ fn = "fgradient"
  /\ \E image \in Images :
       /\ args = [image |-> image]
       /\ mem = [image |-> image]
  /\ disk = <<>>

MaskValues == {F(1), NaN}

Init_fmaskinterp ==
  /\ fn = "fmaskinterp"
  /\ \E image \in Arrays(ImageValues) \ {<<>>} :
       \E mask \in [DOMAIN image -> MaskValues] :
         /\ args = [image |-> image, mask |-> mask]
         /\ mem = [image |-> image, mask |-> mask]
  /\ disk = <<>>

Init ==
  /\ pc = "call"
  /\ frame = <<>>
  /\ ret = [exc |-> "pending"]
  /\ \/ Init_ffreqaxis
     \/ Init_fheader_3Dto2D
     \/ Init_fmaptheta_halfpolar
     \/ Init_fmask_snr
     \/ Init_fhighlatmask
     \/ Init_fcubeavg
     \/ Init_fslice3DFITS
     \/ Init_fconvolve
     \/ Init_freproject_2D
     \/ Init_freproj2D_EQ_GAL
     \/ Init_freproj3D_EQ_GAL
     \/ Init_fmask_signal
     \/ Init_fgradient
     \/ Init_fmaskinterp

----------------------------------------------------------------------------
(* The calls                                                               *)

Call_ffreqaxis ==
  /\ pc = "call" /\ fn = "ffreqaxis"
  /\ ret' = ffreqaxis(disk, args.file)
  /\ pc' = "done"
  /\ UNCHANGED <<fn, args, disk, mem, frame>>

Call_fheader_3Dto2D ==
  /\ pc = "call" /\ fn = "fheader_3Dto2D"
  /\ LET r == fheader_3Dto2D(disk, args.filedir_in, args.filedir_out, args.write)
     IN  disk' = r.files /\ ret' = r.ret
  /\ pc' = "done"
  /\ UNCHANGED <<fn, args, mem, frame>>

\* The function works on the caller's array and returns that same array.
Call_fmaptheta_halfpolar ==
  /\ pc = "call" /\ fn = "fmaptheta_halfpolar"
  /\ mem' = [mem EXCEPT !.angles = fmaptheta_halfpolar(mem.angles, args.deg)]
  /\ ret' = Return(mem'.angles)
  /\ pc' = "done"
  /\ UNCHANGED <<fn, args, disk, frame>>

Call_fmask_snr ==
  /\ pc = "call" /\ fn = "fmask_snr"
  /\ ret' = Return(fmask_snr(mem.data, mem.noise, args.snr))
  /\ pc' = "done"
  /\ UNCHANGED <<fn, args, disk, mem, frame>>

Call_fhighlatmask ==
  /\ pc = "call" /\ fn = "fhighlatmask"
  /\ ret' = Return(fhighlatmask(mem.lb_coords, args.blim))
  /\ pc' = "done"
  /\ UNCHANGED <<fn, args, disk, mem, frame>>

Call_fcubeavg ==
  /\ pc = "call" /\ fn = "fcubeavg"
  /\ LET r == fcubeavg(disk, args.filedir_in, args.filedir_out, args.write)
     IN  disk' = r.files /\ ret' = r.ret
  /\ pc' = "done"
  /\ UNCHANGED <<fn, args, mem, frame>>

\* Lines 481-487: the data, the axis and the reduced header, before the loop.
\* A keyword ffreqaxis misses ends the call.
Call_fslice3DFITS ==
  /\ pc = "call" /\ fn = "fslice3DFITS"
  /\ LET data       == disk[args.filedir_in].data
         third_axis == ffreqaxis(disk, args.filedir_in)
         header_2D  == fheader_3Dto2D(disk, args.filedir_in, "None", FALSE).ret.val
     IN  IF third_axis.exc # "none"
           THEN /\ ret' = third_axis
                /\ pc' = "done"
                /\ UNCHANGED frame
           ELSE /\ frame' = [data |-> data, third_axis |-> third_axis.val,
                             header_2D |-> header_2D, i |-> 0]
                /\ pc' = "loop"
                /\ UNCHANGED ret
  /\ UNCHANGED <<fn, args, disk, mem>>

\* Lines 490-497: one pass of the loop writes the file of plane i.
Loop_fslice3DFITS ==
  /\ pc = "loop" /\ fn = "fslice3DFITS"
  /\ frame.i < shape0(frame.data)
  /\ IF frame.i + 1 > Len(frame.third_axis)
       THEN /\ ret' = [exc |-> "IndexError"]
            /\ pc' = "done"
            /\ UNCHANGED <<disk, frame>>
       ELSE /\ disk' = writeto(disk,
                         slice_fdir(args.filedir_in, args.dir_out, args.units,
                                    frame.third_axis, frame.i),
                         frame.data[frame.i + 1], frame.header_2D)
            /\ frame' = [frame EXCEPT !.i = frame.i + 1]
            /\ UNCHANGED <<pc, ret>>
  /\ UNCHANGED <<fn, args, mem>>

\* The loop is over: the function returns None.
Return_fslice3DFITS ==
  /\ pc = "loop" /\ fn = "fslice3DFITS"
  /\ frame.i >= shape0(frame.data)
  /\ ret' = Return("None")
  /\ pc' = "done"
  /\ UNCHANGED <<fn, args, disk, mem, frame>>

\* convolve_fft belongs to astropy: handed a kernel of NaN it either raises
\* (it cannot normalise the kernel) or returns, depending on its version.
Call_fconvolve ==
  /\ pc = "call" /\ fn = "fconvolve"
  /\ LET r == fconvolve(args.oldres, args.newres, mem.data, args.header, args.method)
     IN  /\ mem' = [mem EXCEPT !.data = r.data]
         /\ \E library_raises \in BOOLEAN :
              ret' = IF /\ library_raises /\ args.method = "astropy"
                        /\ r.ret.exc = "none"
                        /\ \E p \in DOMAIN r.ret.val : isnan(r.ret.val[p])
                       THEN [exc |-> "Exception"]
                       ELSE r.ret
  /\ pc' = "done"
  /\ UNCHANGED <<fn, args, disk, frame>>

Call_freproject_2D ==
  /\ pc = "call" /\ fn = "freproject_2D"
  /\ ret' = freproject_2D(disk, args.image1_dir, args.image2_dir, args.clean, args.order)
  /\ pc' = "done"
  /\ UNCHANGED <<fn, args, disk, mem, frame>>

\* header_GAL_NAXIS1 and header_GAL_NAXIS2 are neither local variables of the
\* function nor names of the module.
Call_freproj2D_EQ_GAL ==
  /\ pc = "call" /\ fn = "freproj2D_EQ_GAL"
  /\ LET r == freproj2D_EQ_GAL(disk, args.filedir_in, args.filedir_out,
                               locals_2D \cup module_globals, <<>>)
     IN  disk' = r.files /\ ret' = r.ret
  /\ pc' = "done"
  /\ UNCHANGED <<fn, args, mem, frame>>

Call_freproj3D_EQ_GAL ==
  /\ pc = "call" /\ fn = "freproj3D_EQ_GAL"
  /\ LET r == freproj3D_EQ_GAL(disk, args.filedir_in, args.filedir_out,
                               args.header_file, locals_3D \cup module_globals, <<>>)
     IN  disk' = r.files /\ ret' = r.ret
  /\ pc' = "done"
  /\ UNCHANGED <<fn, args, mem, frame>>

Call_fmask_signal ==
  /\ pc = "call" /\ fn = "fmask_signal"
  /\ ret' = Return(fmask_signal(mem.data, args.signal))
  /\ pc' = "done"
  /\ UNCHANGED <<fn, args, disk, mem, frame>>

Call_fgradient ==
  /\ pc = "call" /\ fn = "fgradient"
  /\ ret' = fgradient(mem.image)
  /\ pc' = "done"
  /\ UNCHANGED <<fn, args, disk, mem, frame>>

\* griddata raises when the valid pixels do not span a triangulation.
Call_fmaskinterp ==
  /\ pc = "call" /\ fn = "fmaskinterp"
  /\ \E library_raises \in BOOLEAN :
       ret' = IF library_raises THEN [exc |-> "Exception"]
              ELSE Return(fmaskinterp(mem.image, mem.mask))
  /\ pc' = "done"
  /\ UNCHANGED <<fn, args, disk, mem, frame>>

Next ==
  \/ Call_ffreqaxis
  \/ Call_fheader_3Dto2D
  \/ Call_fmaptheta_halfpolar
  \/ Call_fmask_snr
  \/ Call_fhighlatmask
  \/ Call_fcubeavg
  \/ Call_fslice3DFITS
  \/ Loop_fslice3DFITS
  \/ Return_fslice3DFITS
  \/ Call_fconvolve
  \/ Call_freproject_2D
  \/ Call_freproj2D_EQ_GAL
  \/ Call_freproj3D_EQ_GAL
  \/ Call_fmask_signal
  \/ Call_fgradient
  \/ Call_fmaskinterp

Spec == Init /\ [][Next]_vars

----------------------------------------------------------------------------
(* C1: for every header that carries CRVAL3, CRPIX3, CDELT3 and NAXIS3,    *)
(* ffreqaxis returns an axis of exactly NAXIS3 elements, element i (from   *)
(* 0) being CRVAL3 + ((i+1) - CRPIX3) * CDELT3, so that for an integer     *)
(* CRPIX3 in 1..NAXIS3 the element at index CRPIX3-1 is CRVAL3; if any of  *)
(* the four keywords is absent the call fails and returns no axis.         *)

Axis3Keys == {"CRVAL3", "CRPIX3", "CDELT3", "NAXIS3"}

C1_FreqAxis ==
  (fn = "ffreqaxis" /\ pc = "done") =>
    LET h == disk[args.file].header IN
    IF \A key \in Axis3Keys : HasKey(h, key)
      THEN LET n  == HGet(h, "NAXIS3").n
               v  == HGet(h, "CRVAL3")
               p  == HGet(h, "CRPIX3")
               dl == HGet(h, "CDELT3")
           IN  /\ ret.exc = "none"
               /\ Len(ret.val) = n
               /\ \A i \in 0..(n - 1) :
                    ret.val[i + 1] = fadd(v, fmul(fsub(F(i + 1), p), dl))
               /\ (p.d = 1 /\ p.n \in 1..n) => ret.val[(p.n - 1) + 1] = v
      ELSE ret.exc = "KeyError" /\ "val" \notin DOMAIN ret

\* An axis of three planes whose reference pixel is the second plane.
C1_Witness ==
  /\ fn = "ffreqaxis" /\ pc = "done" /\ ret.exc = "none"
  /\ Len(ret.val) = 3
  /\ HGet(disk[args.file].header, "CRPIX3") = F(2)
  /\ HGet(disk[args.file].header, "CDELT3") = F(2)
  /\ ret.val = <<F(3), F(5), F(7)>>

----------------------------------------------------------------------------
(* C2: fheader_3Dto2D is idempotent.  For every input header (any subset   *)
(* of the axis-3 keywords present, in any order) the result has NAXIS = 2, *)
(* carries none of NAXIS3, CDELT3, CROTA3, CRPIX3, CRVAL3, CTYPE3, keeps   *)
(* every other keyword and value unchanged and in order, and reducing the  *)
(* result again gives the same header.                                     *)

\* The cards of a header that are neither NAXIS nor of the third axis.
OtherCards(header) ==
  SelectSeq(header, LAMBDA card : card[1] \notin Axis3Keywords \cup {"NAXIS"})

C2_Idempotent ==
  (fn = "fheader_3Dto2D" /\ pc = "done") =>
    LET h0 == disk[args.filedir_in].header
        h1 == ret.val
    IN  /\ ret.exc = "none"
        /\ HasKey(h1, "NAXIS") /\ HGet(h1, "NAXIS") = F(2)
        /\ \A key \in Axis3Keywords : ~HasKey(h1, key)
        /\ OtherCards(h1) = OtherCards(h0)
        /\ Len(h1) = Len(OtherCards(h0)) + 1
        /\ header_3Dto2D(h1) = h1

\* A header whose axis-3 keywords come in another order than the function's
\* own list, all six of them, reduced.
C2_Witness ==
  /\ fn = "fheader_3Dto2D" /\ pc = "done"
  /\ LET h0 == disk[args.filedir_in].header
     IN  /\ Len(h0) = 9
         /\ h0[3][1] = "CTYPE3" /\ h0[8][1] = "NAXIS3"
  /\ ret.val = << <<"NAXIS", F(2)>>, <<"NAXIS1", F(4)>>, <<"BUNIT", Str("K")>> >>

----------------------------------------------------------------------------
(* C3: fmaptheta_halfpolar folds the full range onto the half range.  With *)
(* deg=True an angle a in [0,360] becomes a if a < 180, a-180 if           *)
(* 180 <= a < 360 and 0 if a = 360, so every result lies in [0,180); with  *)
(* deg=False the same holds with 1 and 2 for 180 and 360 (2.0 -> 0.0,      *)
(* 1.5 -> 0.5, 0.5 -> 0.5, every result in [0,1)).                         *)

\* The fold the claim states, for a finite angle a in [0, full].
Folded(a, half, full) ==
  IF a.n * half.d < half.n * a.d THEN a
  ELSE IF a = full THEN F(0)
  ELSE Rat(a.n * half.d - half.n * a.d, a.d * half.d)

InRange(a, full) == a.k = "num" /\ a.n >= 0 /\ a.n <= full.n * a.d

----------------------------------------------------------------------------
(* C4: for every data array, every noise (a scalar or an array of the same *)
(* shape) and every threshold snr, fmask_snr returns mask with mask[p] NaN *)
(* exactly when data[p]/noise[p] < snr and 1 otherwise, and clipped =      *)
(* data*mask: data[p] where mask[p] = 1, NaN where mask[p] is NaN.  A      *)
(* pixel whose data/noise equals snr is kept.                              *)

\* data/noise < snr for finite data, stated without the division; a NaN
\* quotient (NaN data, 0/0) is below nothing.
BelowSnr(d, n, snr) ==
  /\ d.k = "num"
  /\ \/ n.n > 0 /\ d.n * n.d * snr.d < snr.n * n.n * d.d
     \/ n.n < 0 /\ d.n * n.d * snr.d > snr.n * n.n * d.d
     \/ n.n = 0 /\ d.n < 0

C4_MaskSnr ==
  (fn = "fmask_snr" /\ pc = "done") =>
    LET data    == args.data
        mask    == ret.val[1]
        clipped == ret.val[2]
        noise   == args.noise
    IN  /\ ret.exc = "none"
        /\ DOMAIN mask = DOMAIN data /\ DOMAIN clipped = DOMAIN data
        /\ \A p \in DOMAIN data :
             LET n == IF noise.k = "array" THEN noise.v[p] ELSE noise.v IN
             /\ mask[p] \in {NaN, F(1)}
             /\ mask[p] = NaN <=> BelowSnr(data[p], n, args.snr)
             /\ clipped[p] = IF mask[p] = NaN THEN NaN ELSE data[p]

\* The specification's example, and a pixel exactly at the threshold.
C4_Witness ==
  /\ fn = "fmask_snr" /\ pc = "done"
  /\ \/ /\ args.data = <<F(1), F(5), F(10)>>
        /\ args.noise = [k |-> "scalar", v |-> F(1)] /\ args.snr = F(3)
        /\ ret.val = << <<NaN, F(1), F(1)>>, <<NaN, F(5), F(10)>> >>
     \/ /\ args.data = <<F(5), F(1)>>
        /\ args.noise = [k |-> "array", v |-> <<F(2), F(2)>>] /\ args.snr = Rat(5, 2)
        /\ ret.val = << <<F(1), NaN>>, <<F(5), NaN>> >>

----------------------------------------------------------------------------
(* C5: for every Galactic coordinate grid and every blim, fhighlatmask     *)
(* returns a mask of the shape of the latitude grid with mask[p] NaN       *)
(* exactly when |latitude[p]| < blim (strictly) and 1.0 otherwise: blim = 0 *)
(* masks no pixel and a pixel with |latitude| = blim is not masked.        *)

C5_HighLatMask ==
  (fn = "fhighlatmask" /\ pc = "done") =>
    LET b    == args.lb_coords.b
        blim == args.blim
        mask == ret.val
    IN  /\ ret.exc = "none"
        /\ DOMAIN mask = DOMAIN b
        /\ \A p \in DOMAIN b :
             /\ mask[p] \in {NaN, F(1)}
             /\ mask[p] = NaN <=>
                  /\ b[p].k = "num"
                  /\ b[p].n * blim.d < blim.n * b[p].d
                  /\ -b[p].n * blim.d < blim.n * b[p].d
             /\ blim = F(0) => mask[p] = F(1)
             /\ (b[p] = blim \/ b[p] = fneg(blim)) => mask[p] = F(1)

\* A grid with a latitude inside the band, one on its edge (from the south)
\* and one outside.
C5_Witness ==
  /\ fn = "fhighlatmask" /\ pc = "done"
  /\ args.blim = F(10)
  /\ args.lb_coords.b = <<F(0), F(-10), F(45)>>
  /\ ret.val = <<NaN, F(1), F(1)>>

----------------------------------------------------------------------------
(* C6: fcubeavg returns, for every pixel of the cube, the mean over axis 0 *)
(* of the samples at that pixel that are not NaN ([1.0, NaN, 3.0] gives    *)
(* 2.0), NaN exactly when every sample at the pixel is NaN, and pairs the  *)
(* average with the header reduced by fheader_3Dto2D (NAXIS = 2, no axis-3 *)
(* keyword).                                                               *)

\* The sum of the numerators of the samples z in S of a column of whole numbers.
RECURSIVE SumOver(_, _)
SumOver(col, S) ==
  IF S = {} THEN 0
  ELSE LET z == CHOOSE z \in S : TRUE IN col[z].n + SumOver(col, S \ {z})

C6_CubeAvg ==
  (fn = "fcubeavg" /\ pc = "done") =>
    LET cube == disk[args.filedir_in].data
        avg  == ret.val[1]
        hdr  == ret.val[2]
    IN  /\ ret.exc = "none"
        /\ DOMAIN avg = DOMAIN cube[1]
        /\ \A p \in DOMAIN avg :
             LET valid == {z \in DOMAIN cube : cube[z][p] # NaN} IN
             /\ avg[p] = NaN <=> valid = {}
             /\ valid # {} =>
                  /\ avg[p].k = "num"
                  /\ avg[p].n * Cardinality(valid)
                       = avg[p].d * SumOver(Samples(cube, p), valid)
        /\ HGet(hdr, "NAXIS") = F(2)
        /\ \A key \in Axis3Keywords : ~HasKey(hdr, key)
        /\ OtherCards(hdr) = OtherCards(disk[args.filedir_in].header)
        /\ args.write => disk[args.filedir_out] = [header |-> hdr, data |-> avg]

\* The specification's example beside a pixel with no valid sample.
C6_Witness ==
  /\ fn = "fcubeavg" /\ pc = "done"
  /\ disk[args.filedir_in].data = << <<F(1), NaN>>, <<NaN, NaN>>, <<F(3), NaN>> >>
  /\ ret.val[1] = <<F(2), NaN>>
  /\ ~HasKey(ret.val[2], "NAXIS3")

----------------------------------------------------------------------------
(* C7: fslice3DFITS produces exactly one output per plane along axis 0, in *)
(* the order 0, 1, ..., N-1, and then ends: output i carries the data of   *)
(* plane i and the reduced header and is named by the axis value of plane  *)
(* i, so a cube of N planes leaves N distinct outputs, none skipped,       *)
(* duplicated or overwritten by a later one.                               *)

\* The files the call has written so far.
Outputs == DOMAIN disk \ {args.filedir_in}

C7_OnePerPlane ==
  (fn = "fslice3DFITS" /\ pc = "done" /\ ret.exc = "none") =>
    LET N == shape0(frame.data) IN
    /\ frame.i = N
    /\ Cardinality(Outputs) = N
    /\ \A i \in 0..(N - 1) :
         LET fdir == slice_fdir(args.filedir_in, args.dir_out, args.units,
                                frame.third_axis, i)
         IN  /\ fdir \in Outputs
             /\ disk[fdir] = [header |-> frame.header_2D, data |-> frame.data[i + 1]]

----------------------------------------------------------------------------
(* C8: fconvolve called with newres < oldres fails loudly: for either      *)
(* method it raises a domain error and returns no smoothed image, rather   *)
(* than silently producing a NaN kernel size and a result computed from    *)
(* it.                                                                     *)

C8_RaisesOnCoarserTarget ==
  (/\ fn = "fconvolve" /\ pc = "done"
   /\ args.method \in {"scipy", "astropy"}
   /\ flt(args.newres, args.oldres)) =>
    /\ ret.exc # "none"
    /\ "val" \notin DOMAIN ret

----------------------------------------------------------------------------
(* C9: in freproject_2D the header paired with the source data for the     *)
(* resampling (returned as image1_header_reproj) is always derived from    *)
(* image1's own header, and the target header (image2_header_reproj) from  *)
(* image2's: with clean=True each is the minimal header of 11 keywords     *)
(* (NAXIS = 2 and the ten keywords copied from the image's header, nothing *)
(* else), with clean=False each is the image's unmodified header.          *)

\* The minimal header the claim describes for a header h.
MinimalOf(h) ==
  [c \in DOMAIN clean_keys |->
     <<clean_keys[c], IF clean_keys[c] = "NAXIS" THEN F(2) ELSE HGet(h, clean_keys[c])>>]

C9_OwnHeaders ==
  (fn = "freproject_2D" /\ pc = "done" /\ ret.exc = "none") =>
    LET h1 == disk[args.image1_dir].header
        h2 == disk[args.image2_dir].header
        image1_header_reproj == ret.val[4]
        image2_header_reproj == ret.val[6]
    IN  /\ ret.val[3].data = disk[args.image1_dir].data
        /\ ret.val[3].header_in = image1_header_reproj
        /\ ret.val[3].header_out = image2_header_reproj
        /\ IF args.clean
             THEN /\ image1_header_reproj = MinimalOf(h1)
                  /\ image2_header_reproj = MinimalOf(h2)
             ELSE /\ image1_header_reproj = h1
                  /\ image2_header_reproj = h2

----------------------------------------------------------------------------
(* C10: freproj2D_EQ_GAL and freproj3D_EQ_GAL build their Galactic header  *)
(* with the same parameters: a defined, fixed canvas size NAXIS1/NAXIS2,   *)
(* CRPIX1/2 at half of it, CTYPE1/2 = GLON-TAN/GLAT-TAN, CROTA1 = CROTA2   *)
(* = 0, EQUINOX = 2000 and CDELT1/2 copied from the input header; the      *)
(* header written for the external tool carries all of these keywords in   *)
(* both functions.                                                         *)

\* The text header montage is given, where the call has got that far.
MontageHeaders ==
  {disk[p].header : p \in {q \in DOMAIN disk :
      q \in {"/Users/campbell/Documents/PhD/data/GALFACTS/N1/GAL/mheader_GAL.txt",
             "/Users/campbell/Documents/PhD/data/GALFA-HI/N1/v_-10_+10_kms/GAL/mheader_GAL.txt"}}}

C10_GalacticHeader ==
  (/\ fn \in {"freproj2D_EQ_GAL", "freproj3D_EQ_GAL"} /\ pc = "done"
   /\ \A key \in {"NAXIS1", "NAXIS2", "CDELT1", "CDELT2"} :
        HasKey(disk[args.filedir_in].header, key)) =>
    /\ ret.exc = "none"
    /\ MontageHeaders # {}
    /\ \A h \in MontageHeaders :
         /\ \A key \in {"NAXIS1", "NAXIS2", "CRPIX1", "CRPIX2", "CTYPE1", "CTYPE2",
                        "CROTA1", "CROTA2", "EQUINOX", "CDELT1", "CDELT2"} :
              HasKey(h, key)
         /\ HGet(h, "CRPIX1") = fdiv(HGet(h, "NAXIS1"), F(2))
         /\ HGet(h, "CRPIX2") = fdiv(HGet(h, "NAXIS2"), F(2))
         /\ HGet(h, "CTYPE1") = Str("GLON-TAN") /\ HGet(h, "CTYPE2") = Str("GLAT-TAN")
         /\ HGet(h, "CROTA1") = F(0) /\ HGet(h, "CROTA2") = F(0)
         /\ HGet(h, "EQUINOX") = F(2000)
         /\ HGet(h, "CDELT1") = HGet(disk[args.filedir_in].header, "CDELT1")
         /\ HGet(h, "CDELT2") = HGet(disk[args.filedir_in].header, "CDELT2")

----------------------------------------------------------------------------
(* C11: no function modifies an array its caller passed in, except         *)
(* fconvolve with method="scipy", which overwrites the NaN entries of its   *)
(* data with 0.  After a call of fmask_snr, fmask_signal,                   *)
(* fmaptheta_halfpolar, fgradient, fmaskinterp, fhighlatmask or fconvolve   *)
(* with method="astropy", every input array holds the values it held       *)
(* before the call.                                                        *)

NonMutating ==
  {"fmask_snr", "fmask_signal", "fmaptheta_halfpolar", "fgradient", "fmaskinterp",
   "fhighlatmask"}

\* The arrays of the caller hold what was passed in.
ArraysAsPassed == \A name \in DOMAIN mem : mem[name] = args[name]

C11_InputsUnchanged ==
  /\ (pc = "done" /\ fn \in NonMutating) => ArraysAsPassed
  /\ (pc = "done" /\ fn = "fconvolve" /\ args.method = "astropy") => ArraysAsPassed
  /\ (pc = "done" /\ fn = "fconvolve" /\ args.method = "scipy" /\ ret.exc = "none") =>
       /\ DOMAIN mem.data = DOMAIN args.data
       /\ \A p \in DOMAIN args.data :
            mem.data[p] = IF isnan(args.data[p]) THEN F(0) ELSE args.data[p]

----------------------------------------------------------------------------
(* C12: every mask fmask_signal, fmask_snr and fhighlatmask return has the *)
(* shape of its input and every entry is 1.0 or NaN.  For fmask_signal     *)
(* mask[p] is NaN exactly when data[p] < threshold, with no normalization, *)
(* and the clipped output is data[p] where mask[p] is 1.0 and NaN where    *)
(* mask[p] is NaN.                                                         *)

\* d < s for floats, stated on the values: nothing is below or above NaN.
BelowSignal(d, s) ==
  /\ d.k # "nan" /\ s.k # "nan"
  /\ \/ d.k = "inf" /\ d.n < 0
     \/ d.k = "num" /\ s.k = "num" /\ d.n * s.d < s.n * d.d

IsMask(mask, input) ==
  /\ DOMAIN mask = DOMAIN input
  /\ \A p \in DOMAIN mask : mask[p] \in {F(1), NaN}

C12_Masks ==
  /\ (fn = "fmask_snr" /\ pc = "done") => IsMask(ret.val[1], args.data)
  /\ (fn = "fhighlatmask" /\ pc = "done") => IsMask(ret.val, args.lb_coords.b)
  /\ (fn = "fmask_signal" /\ pc = "done") =>
       LET mask    == ret.val[1]
           clipped == ret.val[2]
       IN  /\ ret.exc = "none"
           /\ IsMask(mask, args.data)
           /\ DOMAIN clipped = DOMAIN args.data
           /\ \A p \in DOMAIN args.data :
                /\ (mask[p] = NaN) <=> BelowSignal(args.data[p], args.signal)
                /\ mask[p] = F(1) => clipped[p] = args.data[p]
                /\ mask[p] = NaN => clipped[p] = NaN

\* A pixel below, one at and one above the threshold.
C12_Witness ==
  /\ fn = "fmask_signal" /\ pc = "done"
  /\ args.data = <<F(1), F(5), F(10)>> /\ args.signal = F(5)
  /\ ret.val = << <<NaN, F(1), F(1)>>, <<NaN, F(5), F(10)>> >>

----------------------------------------------------------------------------
(* C13: on a readable equatorial input file freproj2D_EQ_GAL and           *)
(* freproj3D_EQ_GAL each run to completion through the header-file         *)
(* protocol: the Galactic header is built, written to the intermediate     *)
(* FITS header file, turned into the text header of the external tool, the *)
(* intermediate FITS header file is deleted and the external reprojection  *)
(* writes filedir_out.  On return the reprojected file exists at           *)
(* filedir_out, made with that text header, and the intermediate FITS      *)
(* header file does not exist.                                             *)

IntermediateHeaderFiles ==
  {"/Users/campbell/Documents/PhD/data/GALFACTS/N1/GAL/header_GAL.fits",
   "/Users/campbell/Documents/PhD/data/GALFA-HI/N1/v_-10_+10_kms/GAL/header_GAL.fits"}

C13_RunsProtocol ==
  (/\ fn \in {"freproj2D_EQ_GAL", "freproj3D_EQ_GAL"} /\ pc = "done"
   /\ \A key \in {"NAXIS1", "NAXIS2", "CDELT1", "CDELT2"} :
        HasKey(disk[args.filedir_in].header, key)) =>
    /\ ret.exc = "none"
    /\ args.filedir_out \in DOMAIN disk
    /\ MontageHeaders # {}
    /\ \A h \in MontageHeaders : disk[args.filedir_out].header = h
    /\ IntermediateHeaderFiles \cap DOMAIN disk = {}

----------------------------------------------------------------------------
(* C14: when the header of the input lacks any of CRVAL3, CRPIX3, CDELT3   *)
(* or NAXIS3, fslice3DFITS fails with the lookup failure (KeyError, of the *)
(* first keyword missing in that order) handed to its caller before any    *)
(* slice file is written: the loop is never entered and at no point of the *)
(* call is there any file but the input.                                   *)

C14_FailsBeforeWriting ==
  (/\ fn = "fslice3DFITS"
   /\ \E key \in Axis3Keys : ~HasKey(disk[args.filedir_in].header, key)) =>
    /\ pc \in {"call", "done"}
    /\ DOMAIN disk = {args.filedir_in}
    /\ pc = "done" =>
         /\ ret.exc = "KeyError"
         /\ ret.key = FirstMissing(disk[args.filedir_in].header,
                                   <<"CRVAL3", "CRPIX3", "CDELT3", "NAXIS3">>, 1)

\* A cube of two planes, which would have been written, without CDELT3.
C14_Witness ==
  /\ fn = "fslice3DFITS" /\ pc = "done"
  /\ ret = KeyError("CDELT3")
  /\ HasKey(disk[args.filedir_in].header, "NAXIS3")
  /\ Len(disk[args.filedir_in].data) = 2
  /\ DOMAIN disk = {args.filedir_in}

====
